---- MODULE Spec2Model ----
(***************************************************************************)
(* Model of the background job manager of the FFmpeg MCP server            *)
(* (class FFmpegMCPServer): the processingQueue Map, the speed_up_video    *)
(* handler with its size classification and background submit, the exit    *)
(* callback of every spawned ffmpeg process, the check_processing_status   *)
(* snapshot with its eviction sweep, and estimateProcessingTime.           *)
(*                                                                         *)
(* Units: time is in milliseconds since the server started (Date.now());   *)
(* file sizes are in MiB, so fileSizeGB = size / GB with GB = 1024.         *)
(* JavaScript runs every handler body and every callback to completion, so *)
(* each of them is one action; a handler reads the clock once.             *)
(*                                                                         *)
(* procs holds one record per child process that exec has spawned, in      *)
(* spawn order: the arguments its callback closes over (jobId, command,    *)
(* inputPath, outputPath), whether it has exited, the error its callback   *)
(* received, and unseenFailure, which is TRUE from a failed exit until the *)
(* next check_processing_status call.  reply is the response of the        *)
(* request handled by the last step, NoReply after a step that is no       *)
(* request (a process exit, the clock advancing).                          *)
(*                                                                         *)
(* concatenate_videos is an async handler with awaits, so each of its      *)
(* calls is a sequence of steps, one per continuation.  calls holds one    *)
(* record per call with its position (pc), its arguments, what its ffmpeg  *)
(* process read as list file, and the error on its way to the catch block. *)
(* listFile is the file concat_list.txt of the video folder: whether it    *)
(* exists, its content and the call that wrote it last.  An fs operation   *)
(* takes effect in the step in which its await resumes.                    *)
(***************************************************************************)
EXTENDS Integers, Sequences, FiniteSets, TLC

VARIABLES processingQueue, procs, now, reply, listFile, calls

vars == <<processingQueue, procs, now, reply, listFile, calls>>

(* ---------------------------- bounds ----------------------------------- *)
MaxSubmits == 2
MaxEstimateGB == 31
MaxConcatCalls == 2

(* ------------------------- program constants ---------------------------- *)
GB == 1024
baseMinutesPerGB == 3
oneHour == 60 * 60 * 1000

(* ------------------------------ inputs ---------------------------------- *)
baseFolder == "/videos"
Filenames == {"a.mp4", "a.mov", "b.mp4", "exact.mp4", "missing.mp4"}
SpeedFactors == {50}
OutputSuffixes == {""}
ErrorTexts == {"Command failed: ffmpeg"}
(* the clock readings at which handlers and callbacks run *)
ClockReadings == {0, oneHour, oneHour + 1}

(* the video folder as fs.stat sees it: the size of every file in MiB,    *)
(* NoFile for a name that does not exist                                   *)
NoFile == -1
fileStats(filename) ==
  CASE filename = "exact.mp4" -> GB
    [] filename = "missing.mp4" -> NoFile
    [] OTHER -> GB + 1

(* the absent endTime / error property of a job object *)
NoTime == -1
Undefined == "undefined"
Null == "null"

(* --------------------------- string helpers ----------------------------- *)
CharAt(s, i) == SubSeq(s, i, i)

RECURSIVE LastIndexOf(_, _, _)
LastIndexOf(s, c, i) ==
  IF i = 0 THEN 0
  ELSE IF CharAt(s, i) = c THEN i ELSE LastIndexOf(s, c, i - 1)

(* part of the path after the last separator *)
LastSegment(p) == SubSeq(p, LastIndexOf(p, "/", Len(p)) + 1, Len(p))

(* path.extname: from the last dot of the last segment, "" when there is   *)
(* none or when it is the segment's first character                        *)
extname(p) ==
  LET seg == LastSegment(p)
      d == LastIndexOf(seg, ".", Len(seg))
  IN IF d <= 1 THEN "" ELSE SubSeq(seg, d, Len(seg))

(* path.basename(p, ext): the last segment without the suffix ext *)
basename(p, ext) ==
  LET seg == LastSegment(p)
      n == Len(seg) - Len(ext)
  IN IF ext # "" /\ n >= 1 /\ SubSeq(seg, n + 1, Len(seg)) = ext
     THEN SubSeq(seg, 1, n) ELSE seg

pathJoin(dir, name) == dir \o "/" \o name

RECURSIVE PadLeft(_, _)
PadLeft(s, w) == IF Len(s) >= w THEN s ELSE PadLeft("0" \o s, w)

(* (num/den).toFixed(digits) for non-negative num/den, round half up *)
RECURSIVE Pow10(_)
Pow10(n) == IF n = 0 THEN 1 ELSE 10 * Pow10(n - 1)

toFixed(num, den, digits) ==
  LET scaled == (2 * num * Pow10(digits) + den) \div (2 * den)
  IN ToString(scaled \div Pow10(digits)) \o "." \o
     PadLeft(ToString(scaled % Pow10(digits)), digits)

(* ------------------------ speedUpVideo helpers -------------------------- *)
outputFilenameOf(filename, speed_factor, output_suffix) ==
  LET fileExt == extname(filename)
      baseName == basename(filename, fileExt)
      suffix == IF output_suffix # "" THEN output_suffix
                ELSE "x" \o ToString(speed_factor)
  IN baseName \o suffix \o fileExt

commandOf(inputPath, outputPath, speed_factor) ==
  "ffmpeg -i \"" \o inputPath \o "\" -filter:v \"setpts=" \o
  toFixed(1, speed_factor, 4) \o
  "*PTS\" -r 30 -an -c:v mpeg4 -q:v 5 \"" \o outputPath \o "\""

(* const isLargeFile = fileSizeGB > 1, with fileSizeGB = size / GB *)
isLargeFile(size) == size > GB

(* `${baseName}_${Date.now()}` *)
jobIdOf(filename, t) ==
  basename(filename, extname(filename)) \o "_" \o ToString(t)

(* ------------------------ estimateProcessingTime ------------------------ *)
(* fileSizeGB = size / GB, so estimatedMinutes = size * 3 / GB; the        *)
(* arithmetic is done on the numerator size * 3 over the denominator GB.   *)
CeilDiv(a, b) == (a + b - 1) \div b

estimateProcessingTime_Floor(size, speedFactor) ==
  LET num == size * baseMinutesPerGB
  IN IF num < 60 * GB
     THEN "~" \o ToString(num \div GB) \o " minutes"
     ELSE LET hours == num \div (60 * GB)
              minutes == (num % (60 * GB)) \div GB
          IN "~" \o ToString(hours) \o "h " \o ToString(minutes) \o "m"

estimateProcessingTime(size, speedFactor) ==
  LET num == size * baseMinutesPerGB
  IN IF num < 60 * GB
     THEN "~" \o ToString(CeilDiv(num, GB)) \o " minutes"
     ELSE LET hours == num \div (60 * GB)
              minutes == CeilDiv(num % (60 * GB), GB)
          IN "~" \o ToString(hours) \o "h " \o ToString(minutes) \o "m"

(* ---------------------- the registry as a Map --------------------------- *)
(* processingQueue is a sequence of <<key, job>> pairs in insertion order. *)
Keys(q) == {q[i][1] : i \in 1..Len(q)}

IndexOf(q, k) == CHOOSE i \in 1..Len(q) : q[i][1] = k

MapHas(q, k) == k \in Keys(q)

MapGet(q, k) == q[IndexOf(q, k)][2]

(* Map.prototype.set: a new key is appended, an existing key keeps its     *)
(* position and gets the new value                                          *)
MapSet(q, k, v) ==
  IF MapHas(q, k) THEN [q EXCEPT ![IndexOf(q, k)] = <<k, v>>]
  ELSE Append(q, <<k, v>>)

(* ------------------------------ Init ------------------------------------ *)
NoReply == [kind |-> "none"]

(* concat_list.txt is not in the video folder *)
NoListFile == [exists |-> FALSE, content |-> "", writer |-> 0]

(* a concatenate_videos call that has not been received yet *)
NoCall == [pc |-> "idle", video_files |-> <<>>, output_filename |-> "",
           read |-> Null, error |-> Null]

Init ==
  /\ processingQueue = <<>>
  /\ procs = <<>>
  /\ now = 0
  /\ reply = NoReply
  /\ listFile = NoListFile
  /\ calls = [c \in 1..MaxConcatCalls |-> NoCall]

(* --------------------------- speedUpVideo ------------------------------- *)
(* the catch of the CallToolRequestSchema handler wraps every thrown error *)
ToolError(message) ==
  [kind |-> "error", code |-> "InternalError",
   message |-> "Tool execution failed: " \o message]

(* fs.stat(inputPath) rejects: the handler throws before touching the Map *)
speedUpVideoNotFound(filename) ==
  /\ fileStats(filename) = NoFile
  /\ reply' = ToolError("Input file not found: " \o pathJoin(baseFolder, filename))
  /\ UNCHANGED <<processingQueue, procs, now, listFile, calls>>

speedUpVideoBackground_Awaited(filename, speed_factor, output_suffix) ==
  LET size == fileStats(filename)
      inputPath == pathJoin(baseFolder, filename)
      outputFilename == outputFilenameOf(filename, speed_factor, output_suffix)
      outputPath == pathJoin(baseFolder, outputFilename)
      command == commandOf(inputPath, outputPath, speed_factor)
      jobId == jobIdOf(filename, now)
      pid == Len(procs) + 1
      job == [status |-> "completed",
              inputFile |-> filename,
              outputFile |-> outputFilename,
              startTime |-> now,
              command |-> command,
              fileSize |-> size,
              endTime |-> now,
              error |-> Undefined,
              process |-> pid]
  IN /\ size # NoFile
     /\ isLargeFile(size)
     /\ Len(procs) < MaxSubmits
     /\ processingQueue' = MapSet(processingQueue, jobId, job)
     /\ procs' = Append(procs, [jobId |-> jobId,
                                 command |-> command,
                                 inputPath |-> inputPath,
                                 outputPath |-> outputPath,
                                 state |-> "exited",
                                 error |-> Null,
                                 unseenFailure |-> FALSE])
     /\ reply' = [kind |-> "background",
                  jobId |-> jobId,
                  fileSize |-> toFixed(size, GB, 2) \o "GB",
                  input |-> inputPath,
                  output |-> outputPath,
                  estimate |-> estimateProcessingTime(size, speed_factor)]
     /\ UNCHANGED <<now, listFile, calls>>

(* isLargeFile: the job is stored, startBackgroundProcessing spawns the    *)
(* child and stores its reference in the job, and the job id is returned   *)
speedUpVideoBackground(filename, speed_factor, output_suffix) ==
  LET size == fileStats(filename)
      inputPath == pathJoin(baseFolder, filename)
      outputFilename == outputFilenameOf(filename, speed_factor, output_suffix)
      outputPath == pathJoin(baseFolder, outputFilename)
      command == commandOf(inputPath, outputPath, speed_factor)
      jobId == jobIdOf(filename, now)
      pid == Len(procs) + 1
      job == [status |-> "processing",
              inputFile |-> filename,
              outputFile |-> outputFilename,
              startTime |-> now,
              command |-> command,
              fileSize |-> size,
              endTime |-> NoTime,
              error |-> Undefined,
              process |-> pid]
  IN /\ size # NoFile
     /\ isLargeFile(size)
     /\ Len(procs) < MaxSubmits
     /\ processingQueue' = MapSet(processingQueue, jobId, job)
     /\ procs' = Append(procs, [jobId |-> jobId,
                                 command |-> command,
                                 inputPath |-> inputPath,
                                 outputPath |-> outputPath,
                                 state |-> "running",
                                 error |-> Undefined,
                                 unseenFailure |-> FALSE])
     /\ reply' = [kind |-> "background",
                  jobId |-> jobId,
                  fileSize |-> toFixed(size, GB, 2) \o "GB",
                  input |-> inputPath,
                  output |-> outputPath,
                  estimate |-> estimateProcessingTime(size, speed_factor)]
     /\ UNCHANGED <<now, listFile, calls>>

speedUpVideoImmediate_Tracked(filename, speed_factor, output_suffix, failure) ==
  LET size == fileStats(filename)
      inputPath == pathJoin(baseFolder, filename)
      outputFilename == outputFilenameOf(filename, speed_factor, output_suffix)
      outputPath == pathJoin(baseFolder, outputFilename)
      command == commandOf(inputPath, outputPath, speed_factor)
      job == [status |-> IF failure = Null THEN "completed" ELSE "failed",
              inputFile |-> filename,
              outputFile |-> outputFilename,
              startTime |-> now,
              command |-> command,
              fileSize |-> size,
              endTime |-> now,
              error |-> IF failure = Null THEN Undefined ELSE failure,
              process |-> 0]
  IN /\ size # NoFile
     /\ ~isLargeFile(size)
     /\ processingQueue' = MapSet(processingQueue, jobIdOf(filename, now), job)
     /\ reply' = IF failure = Null
                 THEN [kind |-> "immediate",
                       input |-> inputPath,
                       output |-> outputPath,
                       fileSize |-> toFixed(size, GB, 2) \o "GB",
                       pts |-> toFixed(1, speed_factor, 4)]
                 ELSE ToolError("FFmpeg speed-up failed: " \o failure \o
                                " Command: " \o command)
     /\ UNCHANGED <<procs, now, listFile, calls>>

(* small file: the command runs under await and only a response is built   *)
speedUpVideoImmediate(filename, speed_factor, output_suffix, failure) ==
  LET size == fileStats(filename)
      inputPath == pathJoin(baseFolder, filename)
      outputPath == pathJoin(baseFolder,
                       outputFilenameOf(filename, speed_factor, output_suffix))
      command == commandOf(inputPath, outputPath, speed_factor)
  IN /\ size # NoFile
     /\ ~isLargeFile(size)
     /\ reply' = IF failure = Null
                 THEN [kind |-> "immediate",
                       input |-> inputPath,
                       output |-> outputPath,
                       fileSize |-> toFixed(size, GB, 2) \o "GB",
                       pts |-> toFixed(1, speed_factor, 4)]
                 ELSE ToolError("FFmpeg speed-up failed: " \o failure \o
                                " Command: " \o command)
     /\ UNCHANGED <<processingQueue, procs, now, listFile, calls>>

speedUpVideo ==
  \E filename \in Filenames, speed_factor \in SpeedFactors,
     output_suffix \in OutputSuffixes :
    \/ speedUpVideoNotFound(filename)
    \/ speedUpVideoBackground(filename, speed_factor, output_suffix)
    \/ \E failure \in ErrorTexts \cup {Null} :
         speedUpVideoImmediate(filename, speed_factor, output_suffix, failure)

(* ---------------- exit callback of startBackgroundProcessing ------------ *)
onProcessExit_StatusOnly(pid, error) ==
  LET jobId == procs[pid].jobId
  IN /\ procs[pid].state = "running"
     /\ procs' = [procs EXCEPT ![pid].state = "exited",
                               ![pid].error = error,
                               ![pid].unseenFailure = (error # Null)]
     /\ IF ~MapHas(processingQueue, jobId)
        THEN UNCHANGED processingQueue
        ELSE LET job == MapGet(processingQueue, jobId)
                 done == IF error # Null
                         THEN [job EXCEPT !.status = "failed", !.error = error]
                         ELSE [job EXCEPT !.status = "completed"]
             IN processingQueue' = MapSet(processingQueue, jobId, done)
     /\ reply' = NoReply
     /\ UNCHANGED <<now, listFile, calls>>

onProcessExit_AllProcessing(pid, error) ==
  LET jobId == procs[pid].jobId
      Finish(entry) ==
        IF entry[1] = jobId \/ entry[2].status = "processing"
        THEN <<entry[1],
               IF error # Null
               THEN [entry[2] EXCEPT !.status = "failed",
                                     !.error = error,
                                     !.endTime = now]
               ELSE [entry[2] EXCEPT !.status = "completed",
                                     !.endTime = now]>>
        ELSE entry
  IN /\ procs[pid].state = "running"
     /\ procs' = [procs EXCEPT ![pid].state = "exited",
                               ![pid].error = error,
                               ![pid].unseenFailure = (error # Null)]
     /\ IF ~MapHas(processingQueue, jobId)
        THEN UNCHANGED processingQueue
        ELSE processingQueue' =
               [i \in 1..Len(processingQueue) |-> Finish(processingQueue[i])]
     /\ reply' = NoReply
     /\ UNCHANGED <<now, listFile, calls>>

onProcessExit_NoGuard(pid, error) ==
  LET jobId == procs[pid].jobId
      job == IF MapHas(processingQueue, jobId)
             THEN MapGet(processingQueue, jobId)
             ELSE [status |-> Undefined,
                   inputFile |-> Undefined,
                   outputFile |-> Undefined,
                   startTime |-> now,
                   command |-> Undefined,
                   fileSize |-> 0,
                   endTime |-> NoTime,
                   error |-> Undefined,
                   process |-> pid]
      done == IF error # Null
              THEN [job EXCEPT !.status = "failed",
                               !.error = error,
                               !.endTime = now]
              ELSE [job EXCEPT !.status = "completed",
                               !.endTime = now]
  IN /\ procs[pid].state = "running"
     /\ procs' = [procs EXCEPT ![pid].state = "exited",
                               ![pid].error = error,
                               ![pid].unseenFailure = (error # Null)]
     /\ processingQueue' = MapSet(processingQueue, jobId, done)
     /\ reply' = NoReply
     /\ UNCHANGED <<now, listFile, calls>>

onProcessExit_DeleteOnSuccess(pid, error) ==
  LET jobId == procs[pid].jobId
      IsOther(entry) == entry[1] # jobId
  IN /\ procs[pid].state = "running"
     /\ procs' = [procs EXCEPT ![pid].state = "exited",
                               ![pid].error = error,
                               ![pid].unseenFailure = (error # Null)]
     /\ IF ~MapHas(processingQueue, jobId)
        THEN UNCHANGED processingQueue
        ELSE IF error # Null
             THEN processingQueue' =
                    MapSet(processingQueue, jobId,
                           [MapGet(processingQueue, jobId) EXCEPT
                              !.status = "failed",
                              !.error = error,
                              !.endTime = now])
             ELSE processingQueue' = SelectSeq(processingQueue, IsOther)
     /\ reply' = NoReply
     /\ UNCHANGED <<now, listFile, calls>>

(* exec's callback (error, stdout, stderr) for child pid; error is Null    *)
(* when the command succeeded, else error.message                          *)
onProcessExit(pid, error) ==
  LET jobId == procs[pid].jobId
  IN /\ procs[pid].state = "running"
     /\ procs' = [procs EXCEPT ![pid].state = "exited",
                               ![pid].error = error,
                               ![pid].unseenFailure = (error # Null)]
     /\ IF ~MapHas(processingQueue, jobId)
        THEN UNCHANGED processingQueue
        ELSE LET job == MapGet(processingQueue, jobId)
                 done == IF error # Null
                         THEN [job EXCEPT !.status = "failed",
                                          !.error = error,
                                          !.endTime = now]
                         ELSE [job EXCEPT !.status = "completed",
                                          !.endTime = now]
             IN processingQueue' = MapSet(processingQueue, jobId, done)
     /\ reply' = NoReply
     /\ UNCHANGED <<now, listFile, calls>>

ProcessExit ==
  \E pid \in 1..Len(procs), error \in ErrorTexts \cup {Null} :
    onProcessExit(pid, error)

(* ----------------------- checkProcessingStatus -------------------------- *)
(* Date.prototype.toLocaleString shows a time to the second *)
toLocaleString(t) == ToString(t \div 1000)

JobView(entry, t) ==
  LET jobId == entry[1]
      job == entry[2]
      duration == IF job.endTime # NoTime
                  THEN (job.endTime - job.startTime) \div 1000
                  ELSE (t - job.startTime) \div 1000
  IN [jobId |-> jobId,
      status |-> job.status,
      inputFile |-> job.inputFile,
      outputFile |-> job.outputFile,
      fileSize |-> toFixed(job.fileSize, GB, 2) \o "GB",
      duration |-> ToString(duration) \o "s",
      startTime |-> toLocaleString(job.startTime),
      endTime |-> IF job.endTime # NoTime THEN toLocaleString(job.endTime)
                  ELSE Null,
      error |-> IF job.error # Undefined /\ job.error # "" THEN job.error
                ELSE Null]

JobViews_NewestFirst(q, t) ==
  [i \in 1..Len(q) |-> JobView(q[Len(q) + 1 - i], t)]

(* Array.from(processingQueue.entries()).map(...): in the Map's order *)
JobViews(q, t) == [i \in 1..Len(q) |-> JobView(q[i], t)]

Expired_ByStartTime(job, t) ==
  LET oneHourAgo == t - oneHour
  IN /\ job.status \in {"completed", "failed"}
     /\ job.endTime # NoTime
     /\ job.startTime < oneHourAgo

Expired_CompletedOnly(job, t) ==
  LET oneHourAgo == t - oneHour
  IN /\ job.status = "completed"
     /\ job.endTime # NoTime
     /\ job.endTime < oneHourAgo

(* the condition of the clean-up loop *)
Expired(job, t) ==
  LET oneHourAgo == t - oneHour
  IN /\ job.status \in {"completed", "failed"}
     /\ job.endTime # NoTime
     /\ job.endTime < oneHourAgo

Retained(entry) == ~Expired(entry[2], now)

IsProcessing(view) == view.status = "processing"
IsCompleted(view) == view.status = "completed"
IsFailed(view) == view.status = "failed"

(* Array.prototype.slice(-3): the last three elements *)
sliceLast3(s) == SubSeq(s, IF Len(s) > 3 THEN Len(s) - 2 ELSE 1, Len(s))

(* the list marker U+2022, written in ASCII *)
bullet == "*"

activeLine(job) ==
  bullet \o " " \o job.jobId \o ": " \o job.inputFile \o " (" \o job.fileSize
       \o ") - Running for " \o job.duration \o "\n"

completedLine(job) ==
  bullet \o " " \o job.outputFile \o " - Completed in " \o job.duration
       \o " (" \o job.endTime \o ")\n"

failedLine(job) ==
  bullet \o " " \o job.inputFile \o " - Failed after " \o job.duration
       \o ": " \o job.error \o "\n"

statusText_NoteWhenIdle(jobs, activeJobs, completedJobs, failedJobs) ==
  LET active[i \in 0..Len(activeJobs)] ==
        IF i = 0 THEN "" ELSE active[i - 1] \o activeLine(activeJobs[i])
      recent == sliceLast3(completedJobs)
      completed[i \in 0..Len(recent)] ==
        IF i = 0 THEN "" ELSE completed[i - 1] \o completedLine(recent[i])
      lastFailed == sliceLast3(failedJobs)
      failed[i \in 0..Len(lastFailed)] ==
        IF i = 0 THEN "" ELSE failed[i - 1] \o failedLine(lastFailed[i])
  IN "Processing Status Summary:\n\n"
       \o "Active jobs: " \o ToString(Len(activeJobs)) \o "\n"
       \o "Completed jobs: " \o ToString(Len(completedJobs)) \o "\n"
       \o "Failed jobs: " \o ToString(Len(failedJobs)) \o "\n\n"
       \o (IF Len(activeJobs) > 0
           THEN "ACTIVE JOBS:\n" \o active[Len(activeJobs)] \o "\n"
           ELSE "")
       \o (IF Len(completedJobs) > 0
           THEN "RECENTLY COMPLETED:\n" \o completed[Len(recent)] \o "\n"
           ELSE "")
       \o (IF Len(failedJobs) > 0
           THEN "FAILED JOBS:\n" \o failed[Len(lastFailed)]
           ELSE "")
       \o (IF Len(activeJobs) = 0 /\ Len(jobs) > 0
           THEN "No recent processing jobs found."
           ELSE "")

(* the text of the status response *)
statusText(jobs, activeJobs, completedJobs, failedJobs) ==
  LET active[i \in 0..Len(activeJobs)] ==
        IF i = 0 THEN "" ELSE active[i - 1] \o activeLine(activeJobs[i])
      recent == sliceLast3(completedJobs)
      completed[i \in 0..Len(recent)] ==
        IF i = 0 THEN "" ELSE completed[i - 1] \o completedLine(recent[i])
      lastFailed == sliceLast3(failedJobs)
      failed[i \in 0..Len(lastFailed)] ==
        IF i = 0 THEN "" ELSE failed[i - 1] \o failedLine(lastFailed[i])
  IN "Processing Status Summary:\n\n"
       \o "Active jobs: " \o ToString(Len(activeJobs)) \o "\n"
       \o "Completed jobs: " \o ToString(Len(completedJobs)) \o "\n"
       \o "Failed jobs: " \o ToString(Len(failedJobs)) \o "\n\n"
       \o (IF Len(activeJobs) > 0
           THEN "ACTIVE JOBS:\n" \o active[Len(activeJobs)] \o "\n"
           ELSE "")
       \o (IF Len(completedJobs) > 0
           THEN "RECENTLY COMPLETED:\n" \o completed[Len(recent)] \o "\n"
           ELSE "")
       \o (IF Len(failedJobs) > 0
           THEN "FAILED JOBS:\n" \o failed[Len(lastFailed)]
           ELSE "")
       \o (IF Len(jobs) = 0
           THEN "No recent processing jobs found."
           ELSE "")

checkProcessingStatus_SweepFirst ==
  LET kept == SelectSeq(processingQueue, Retained)
      jobs == JobViews(kept, now)
      activeJobs == SelectSeq(jobs, IsProcessing)
      completedJobs == SelectSeq(jobs, IsCompleted)
      failedJobs == SelectSeq(jobs, IsFailed)
  IN /\ processingQueue' = kept
     /\ reply' = [kind |-> "status",
                  activeJobs |-> activeJobs,
                  completedJobs |-> completedJobs,
                  failedJobs |-> failedJobs,
                  total |-> Len(jobs),
                  text |-> statusText(jobs, activeJobs, completedJobs,
                                      failedJobs)]
     /\ procs' = [p \in 1..Len(procs) |->
                   [procs[p] EXCEPT !.unseenFailure = FALSE]]
     /\ UNCHANGED <<now, listFile, calls>>

(* the view is computed from the registry as the call finds it, then the   *)
(* expired jobs are deleted, then the view is grouped and formatted        *)
checkProcessingStatus ==
  LET jobs == JobViews(processingQueue, now)
      activeJobs == SelectSeq(jobs, IsProcessing)
      completedJobs == SelectSeq(jobs, IsCompleted)
      failedJobs == SelectSeq(jobs, IsFailed)
  IN /\ processingQueue' = SelectSeq(processingQueue, Retained)
     /\ reply' = [kind |-> "status",
                  activeJobs |-> activeJobs,
                  completedJobs |-> completedJobs,
                  failedJobs |-> failedJobs,
                  total |-> Len(jobs),
                  text |-> statusText(jobs, activeJobs, completedJobs,
                                      failedJobs)]
     /\ procs' = [p \in 1..Len(procs) |->
                   [procs[p] EXCEPT !.unseenFailure = FALSE]]
     /\ UNCHANGED <<now, listFile, calls>>

(* ------------------------------ clock ----------------------------------- *)
Tick ==
  \E t \in ClockReadings :
    /\ t > now
    /\ now' = t
    /\ reply' = NoReply
    /\ UNCHANGED <<processingQueue, procs, listFile, calls>>

Next ==
  \/ speedUpVideo
  \/ ProcessExit
  \/ checkProcessingStatus
  \/ Tick

Spec == Init /\ [][Next]_vars

(* -------------------------- concatenateVideos --------------------------- *)
tempListFile == "concat_list.txt"

ConcatInputs ==
  {<<"a.mp4", "b.mp4">>, <<"b.mp4", "a.mp4">>, <<"a.mp4", "missing.mp4">>}

OutputFilenames == {"out.mp4"}

(* the text in Command: of the error thrown by the catch block *)
concatCommandText(output_filename) ==
  "ffmpeg -f concat -safe 0 -i \"" \o tempListFile \o "\" -c copy \""
    \o output_filename \o "\""

(* video_files.map(filename => `file '${filename}'`).join('\n') *)
listContentOf(video_files) ==
  LET joined[i \in 0..Len(video_files)] ==
        IF i = 0 THEN ""
        ELSE joined[i - 1] \o (IF i > 1 THEN "\n" ELSE "")
               \o "file '" \o video_files[i] \o "'"
  IN joined[Len(video_files)]

(* the first of video_files for which fs.access rejects, 0 when none *)
firstMissing(video_files) ==
  LET missing == {i \in 1..Len(video_files) :
                    fileStats(video_files[i]) = NoFile}
  IN IF missing = {} THEN 0
     ELSE CHOOSE i \in missing : \A j \in missing : i <= j

(* the handler is entered and verifies its inputs: it goes on to write the *)
(* list file, or throws and enters the catch block, which awaits unlink    *)
concatVerify(c, video_files, output_filename) ==
  LET m == firstMissing(video_files)
  IN /\ calls[c].pc = "idle"
     /\ \A d \in 1..(c - 1) : calls[d].pc # "idle"
     /\ calls' = [calls EXCEPT ![c] =
          [pc |-> IF m = 0 THEN "write" ELSE "cleanup",
           video_files |-> video_files,
           output_filename |-> output_filename,
           read |-> Null,
           error |-> IF m = 0 THEN Null
                     ELSE "Input video file not found: "
                            \o pathJoin(baseFolder, video_files[m])]]
     /\ reply' = NoReply
     /\ UNCHANGED <<processingQueue, procs, now, listFile>>

(* await fs.writeFile resumes: the file holds this call's list and ffmpeg  *)
(* is started, or the write was rejected (leaving the file as it was, or   *)
(* truncated) and the catch block is entered                               *)
concatWrite(c, rejected, truncated) ==
  /\ calls[c].pc = "write"
  /\ IF ~rejected
     THEN /\ listFile' = [exists |-> TRUE,
                          content |-> listContentOf(calls[c].video_files),
                          writer |-> c]
          /\ calls' = [calls EXCEPT ![c].pc = "exec"]
     ELSE /\ listFile' = IF truncated
                         THEN [exists |-> TRUE, content |-> "", writer |-> c]
                         ELSE listFile
          /\ calls' = [calls EXCEPT ![c].pc = "cleanup",
                                    ![c].error = "ENOSPC: no space left on device, write"]
  /\ reply' = NoReply
  /\ UNCHANGED <<processingQueue, procs, now>>

(* await execAsync resumes: ffmpeg has opened concat_list.txt of the       *)
(* folder, failed when there was none, and otherwise ended with or         *)
(* without an error; then unlink is awaited, in the try or in the catch    *)
concatExec(c, failure) ==
  LET failed == failure \/ ~listFile.exists
  IN /\ calls[c].pc = "exec"
     /\ calls' = [calls EXCEPT
          ![c].pc = IF failed THEN "cleanup" ELSE "unlink",
          ![c].read = IF listFile.exists THEN listFile.content
                      ELSE Undefined,
          ![c].error = IF failed THEN "Command failed: ffmpeg" ELSE Null]
     /\ reply' = NoReply
     /\ UNCHANGED <<processingQueue, procs, now, listFile>>

(* await fs.unlink of the try block resumes: the file is removed and the   *)
(* call returns, or there was no file, unlink rejected and the catch block *)
(* is entered                                                              *)
concatUnlink(c) ==
  /\ calls[c].pc = "unlink"
  /\ IF listFile.exists
     THEN /\ listFile' = NoListFile
          /\ calls' = [calls EXCEPT ![c].pc = "done"]
          /\ reply' = [kind |-> "concatenated",
                       count |-> Len(calls[c].video_files),
                       output |-> pathJoin(baseFolder,
                                           calls[c].output_filename)]
     ELSE /\ listFile' = listFile
          /\ calls' = [calls EXCEPT ![c].pc = "cleanup",
                                    ![c].error = "ENOENT: no such file or directory, unlink"]
          /\ reply' = NoReply
  /\ UNCHANGED <<processingQueue, procs, now>>

concatCleanup_NoUnlink(c) ==
  /\ calls[c].pc = "cleanup"
  /\ listFile' = listFile
  /\ calls' = [calls EXCEPT ![c].pc = "failed"]
  /\ reply' = ToolError("FFmpeg concatenation failed: " \o calls[c].error
                          \o "\nCommand: "
                          \o concatCommandText(calls[c].output_filename))
  /\ UNCHANGED <<processingQueue, procs, now>>

(* await fs.unlink of the catch block resumes: the file is removed if      *)
(* there was one, a rejection is ignored, and the call throws              *)
concatCleanup(c) ==
  /\ calls[c].pc = "cleanup"
  /\ listFile' = NoListFile
  /\ calls' = [calls EXCEPT ![c].pc = "failed"]
  /\ reply' = ToolError("FFmpeg concatenation failed: " \o calls[c].error
                          \o "\nCommand: "
                          \o concatCommandText(calls[c].output_filename))
  /\ UNCHANGED <<processingQueue, procs, now>>

concatenateVideos ==
  \E c \in 1..MaxConcatCalls :
    \/ \E video_files \in ConcatInputs, output_filename \in OutputFilenames :
         concatVerify(c, video_files, output_filename)
    \/ \E rejected \in BOOLEAN, truncated \in BOOLEAN :
         concatWrite(c, rejected, truncated)
    \/ \E failure \in BOOLEAN : concatExec(c, failure)
    \/ concatUnlink(c)
    \/ concatCleanup(c)

NextConcat == concatenateVideos

SpecConcat == Init /\ [][NextConcat]_vars

(* the job manager alone: background submits, process exits, snapshots and *)
(* the clock; every spawned process exits sooner or later, the clock       *)
(* advances, and check_processing_status keeps being called                *)
LiveFilenames == {"a.mp4"}

NextLive ==
  \/ \E filename \in LiveFilenames, speed_factor \in SpeedFactors,
        output_suffix \in OutputSuffixes :
       speedUpVideoBackground(filename, speed_factor, output_suffix)
  \/ ProcessExit
  \/ checkProcessingStatus
  \/ Tick

SpecLive ==
  /\ Init
  /\ [][NextLive]_vars
  /\ WF_vars(ProcessExit)
  /\ WF_vars(Tick)
  /\ WF_vars(checkProcessingStatus)

(* ---------------------------- getFilesInfo ------------------------------ *)
(* the folder is read and its files are counted, or fs.access / fs.readdir *)
(* rejects and the handler throws                                          *)
getFilesInfo(rejected) ==
  /\ reply' = IF rejected
              THEN ToolError("Failed to read directory: "
                               \o "ENOENT: no such file or directory")
              ELSE [kind |-> "files",
                    folder |-> baseFolder,
                    total |-> Cardinality({f \in Filenames :
                                             fileStats(f) # NoFile})]
  /\ UNCHANGED <<processingQueue, procs, now, listFile, calls>>

(* ------------------ the CallToolRequestSchema handler ------------------- *)
KnownTools ==
  {"speed_up_video", "check_processing_status", "get_files_info",
   "concatenate_videos"}

ToolNames == KnownTools \cup {"speedup_video", "get_file_info"}

(* what McpError prepends to its message, which depends on the SDK version *)
McpErrorPrefixes == {"", "MCP error -32601: "}

(* the default case throws McpError(ErrorCode.MethodNotFound, ...) inside  *)
(* the try, so the handler's own catch receives it and throws the          *)
(* InternalError that wraps its message                                    *)
unknownTool(name) ==
  \E prefix \in McpErrorPrefixes :
    /\ reply' = ToolError(prefix \o "Unknown tool: " \o name)
    /\ UNCHANGED <<processingQueue, procs, now, listFile, calls>>

callTool(name) ==
  \/ name = "speed_up_video" /\ speedUpVideo
  \/ name = "check_processing_status" /\ checkProcessingStatus
  \/ name = "get_files_info" /\ \E rejected \in BOOLEAN : getFilesInfo(rejected)
  \/ name = "concatenate_videos" /\ concatenateVideos
  \/ name \notin KnownTools /\ unknownTool(name)

NextDispatch == \E name \in ToolNames : callTool(name)

SpecDispatch == Init /\ [][NextDispatch]_vars

(* ------------- the pure functions applied to bounded inputs ------------- *)
(* sizes in MiB: every whole number of GB up to the bound, and sizes just  *)
(* above, half way to and just below the next whole GB                     *)
(* the README's example of a large file, 11.2 GB, to the MiB below and   *)
(* the MiB above                                                         *)
ReadmeExampleSizes == {(112 * GB) \div 10, (112 * GB) \div 10 + 1}

EstimateSizes ==
  {k * GB + d : k \in 0..MaxEstimateGB, d \in {0, 1, GB \div 2, GB - 1}}
    \cup ReadmeExampleSizes

EstimateSpeedFactors == {1, 50, 1000}

Estimate ==
  \E size \in EstimateSizes, speedFactor \in EstimateSpeedFactors :
    /\ reply' = [kind |-> "estimate",
                 size |-> size,
                 speedFactor |-> speedFactor,
                 large |-> isLargeFile(size),
                 fileSize |-> toFixed(size, GB, 2) \o "GB",
                 text |-> estimateProcessingTime(size, speedFactor)]
    /\ UNCHANGED <<processingQueue, procs, now, listFile, calls>>

NextEstimate == Estimate

SpecEstimate == Init /\ [][NextEstimate]_vars

(* ======================= properties of the job manager ================== *)
Listed(group, jobId) == \E i \in 1..Len(group) : group[i].jobId = jobId

Terminal(job) == job.status \in {"completed", "failed"}

IsStatusReply == reply.kind = "status"

(* C1: a snapshot taken while the process a background submit spawned has  *)
(* not exited lists the job id of that submit in the active group, with    *)
(* status 'processing' and a null end time, and in no other group.         *)
C1_RunningJobListedActive ==
  IsStatusReply =>
    \A p \in 1..Len(procs) :
      procs[p].state = "running" =>
        /\ \E i \in 1..Len(reply.activeJobs) :
             /\ reply.activeJobs[i].jobId = procs[p].jobId
             /\ reply.activeJobs[i].status = "processing"
             /\ reply.activeJobs[i].endTime = Null
        /\ ~Listed(reply.completedJobs, procs[p].jobId)
        /\ ~Listed(reply.failedJobs, procs[p].jobId)

(* C2: once the exit callback of a job's process has fired with success,   *)
(* every snapshot that reports the job reports it as completed, never as   *)
(* active, and the job's end time is not before its start time.            *)
C2_SucceededJobListedCompleted ==
  IsStatusReply =>
    \A p \in 1..Len(procs) :
      (procs[p].state = "exited" /\ procs[p].error = Null) =>
        LET jobId == procs[p].jobId
        IN /\ ( \/ Listed(reply.activeJobs, jobId)
               \/ Listed(reply.completedJobs, jobId)
               \/ Listed(reply.failedJobs, jobId) )
              => ( /\ Listed(reply.completedJobs, jobId)
                   /\ ~Listed(reply.activeJobs, jobId) )
           /\ MapHas(processingQueue, jobId) =>
                MapGet(processingQueue, jobId).endTime >=
                  MapGet(processingQueue, jobId).startTime

(* C3: the first snapshot after the exit callback of a job's process fired *)
(* with a failure reports the job in the failed group, with the error text *)
(* of that process as its failure detail and with an end time.             *)
C3_FailedJobListedFailedNext ==
  [][ checkProcessingStatus =>
        \A p \in 1..Len(procs) :
          ( /\ procs[p].state = "exited"
            /\ procs[p].error # Null
            /\ procs[p].unseenFailure ) =>
            \E i \in 1..Len(reply'.failedJobs) :
              /\ reply'.failedJobs[i].jobId = procs[p].jobId
              /\ reply'.failedJobs[i].error = procs[p].error
              /\ reply'.failedJobs[i].endTime # Null ]_vars

(* C4: a snapshot taken at time now removes every completed or failed job  *)
(* that ended more than one hour before, and keeps, unchanged, every       *)
(* completed or failed job that ended less than one hour before.           *)
C4_EvictionByRetentionWindow ==
  [][ checkProcessingStatus =>
        \A i \in 1..Len(processingQueue) :
          LET jobId == processingQueue[i][1]
              job == processingQueue[i][2]
          IN Terminal(job) =>
               /\ (now - job.endTime > 60 * 60 * 1000) =>
                    ~MapHas(processingQueue', jobId)
               /\ (now - job.endTime < 60 * 60 * 1000) =>
                    /\ MapHas(processingQueue', jobId)
                    /\ MapGet(processingQueue', jobId) = job ]_vars

(* C4 witness: a snapshot has just evicted one terminal job it listed and  *)
(* kept another.                                                            *)
C4_Witness ==
  /\ IsStatusReply
  /\ \E i \in 1..Len(reply.completedJobs) :
       ~MapHas(processingQueue, reply.completedJobs[i].jobId)
  /\ \E i \in 1..Len(reply.failedJobs) :
       MapHas(processingQueue, reply.failedJobs[i].jobId)

(* C5: a speed_up_video request for an existing file is handled in the     *)
(* background exactly when the file's size is at or above 1 GiB.           *)
C5_AtOrAboveThresholdIsBackground ==
  \A f \in Filenames :
    ( /\ fileStats(f) # NoFile
      /\ reply.kind \in {"immediate", "background"}
      /\ reply.input = pathJoin(baseFolder, f) ) =>
      (reply.kind = "background" <=> fileStats(f) >= GB)

(* the estimate of the claim: estimatedMinutes = 3 * size / GB *)
EstimatedNum(size) == 3 * size

C7_DifferentInputsDistinctIds ==
  \A p \in 1..Len(procs), q \in 1..Len(procs) :
    (p # q /\ procs[p].inputPath # procs[q].inputPath) =>
      procs[p].jobId # procs[q].jobId

(* C8: an entry that is 'completed' or 'failed' keeps its status and its   *)
(* end time for as long as its job id is in the registry.                  *)
C8_TerminalStatusFinal ==
  [][ \A i \in 1..Len(processingQueue) :
        LET jobId == processingQueue[i][1]
            job == processingQueue[i][2]
        IN (Terminal(job) /\ MapHas(processingQueue', jobId)) =>
             /\ MapGet(processingQueue', jobId).status = job.status
             /\ MapGet(processingQueue', jobId).endTime = job.endTime ]_vars

(* C9: in every state, and in every snapshot, a completed or failed job    *)
(* has an end time and a processing job has neither an end time nor a      *)
(* failure detail.                                                          *)
WellFormedView(view) ==
  /\ view.status \in {"completed", "failed"} => view.endTime # Null
  /\ view.status = "processing" => (view.endTime = Null /\ view.error = Null)

C9_NoHalfUpdatedJob ==
  /\ \A i \in 1..Len(processingQueue) :
       LET job == processingQueue[i][2]
       IN /\ Terminal(job) => job.endTime # NoTime
          /\ job.status = "processing" =>
               (job.endTime = NoTime /\ job.error = Undefined)
  /\ IsStatusReply =>
       /\ \A i \in 1..Len(reply.activeJobs) : WellFormedView(reply.activeJobs[i])
       /\ \A i \in 1..Len(reply.completedJobs) :
            WellFormedView(reply.completedJobs[i])
       /\ \A i \in 1..Len(reply.failedJobs) : WellFormedView(reply.failedJobs[i])

(* C9 witness: a snapshot reports a processing job next to a failed one    *)
C9_Witness ==
  /\ IsStatusReply
  /\ Len(reply.activeJobs) = 1
  /\ Len(reply.failedJobs) = 1
  /\ reply.failedJobs[1].endTime # Null
  /\ reply.failedJobs[1].error # Null

(* C10: only a failed entry carries a failure detail *)
C10_ErrorOnlyWhenFailed ==
  \A i \in 1..Len(processingQueue) :
    processingQueue[i][2].error # Undefined =>
      processingQueue[i][2].status = "failed"

(* a step in which a background submit returns / a child's callback fires *)
IsBackgroundSubmitStep == reply'.kind = "background" /\ vars' # vars

ExitsIn(pid) ==
  /\ pid \in 1..Len(procs)
  /\ procs[pid].state = "running"
  /\ Len(procs') = Len(procs)
  /\ procs'[pid].state = "exited"

(* C11: a background submit returns its job id while the process it has    *)
(* spawned is still running, so the exit callback fires after the submit   *)
(* has returned, and a step spawns a process exactly when it is a          *)
(* background submit, which spawns exactly one.                            *)
C11_SubmitSpawnsOneAndReturns ==
  [][ /\ IsBackgroundSubmitStep =>
           /\ Len(procs') = Len(procs) + 1
           /\ SubSeq(procs', 1, Len(procs)) = procs
           /\ procs'[Len(procs')].state = "running"
           /\ procs'[Len(procs')].jobId = reply'.jobId
      /\ Len(procs') # Len(procs) => reply'.kind = "background"
      /\ \A pid \in 1..Len(procs) : ExitsIn(pid) => reply'.kind # "background"
    ]_vars

(* C11 witness: the second submit has returned, its process is running and *)
(* the first process has already exited                                    *)
C11_Witness ==
  /\ reply.kind = "background"
  /\ Len(procs) = 2
  /\ procs[1].state = "exited"
  /\ procs[2].state = "running"
  /\ procs[2].jobId = reply.jobId

(* C12: when a child exits with an error, no response is an error, every   *)
(* entry under another job id is unchanged, no key is added or removed,    *)
(* and the entry under the child's job id, when the registry has one,      *)
(* becomes 'failed' with end time and failure detail set and is otherwise  *)
(* unchanged.                                                               *)
C12_FailureIsContained ==
  [][ \A pid \in 1..Len(procs) :
        (ExitsIn(pid) /\ procs'[pid].error # Null) =>
          LET jobId == procs[pid].jobId
          IN /\ reply'.kind # "error"
             /\ Len(processingQueue') = Len(processingQueue)
             /\ \A i \in 1..Len(processingQueue) :
                  /\ processingQueue'[i][1] = processingQueue[i][1]
                  /\ processingQueue[i][1] # jobId =>
                       processingQueue'[i] = processingQueue[i]
                  /\ processingQueue[i][1] = jobId =>
                       processingQueue'[i][2] =
                         [processingQueue[i][2] EXCEPT
                            !.status = "failed",
                            !.endTime = now,
                            !.error = procs'[pid].error]
    ]_vars

(* C12 witness: one of two jobs has failed, the other is still processing  *)
C12_Witness ==
  /\ Len(processingQueue) = 2
  /\ processingQueue[1][2].status = "processing"
  /\ processingQueue[2][2].status = "failed"
  /\ processingQueue[2][2].error \in ErrorTexts
  /\ processingQueue[2][2].endTime = now
  /\ reply = NoReply

(* the job ids a status response reports, i.e. the three groups together *)
ReportedIds(r) ==
  {r.activeJobs[i].jobId : i \in 1..Len(r.activeJobs)}
    \cup {r.completedJobs[i].jobId : i \in 1..Len(r.completedJobs)}
    \cup {r.failedJobs[i].jobId : i \in 1..Len(r.failedJobs)}

(* C13 as stated: the view a snapshot returns contains exactly the entries *)
(* that remain in the registry when the call returns, so an expired        *)
(* terminal job is not reported by the call that finds it.                 *)
C13_ViewIsWhatRemains ==
  IsStatusReply => ReportedIds(reply) = Keys(processingQueue)

(* C13 amended: a snapshot builds its view before it removes the expired   *)
(* terminal entries: the view contains exactly the entries the call found  *)
(* in the registry; an entry that ended more than one hour before the call *)
(* is reported by this call and is no longer in the registry when the call *)
(* returns, every other entry remains.                                     *)
C13_ViewBuiltBeforeEviction ==
  [][ reply'.kind = "status" =>
        /\ ReportedIds(reply') = Keys(processingQueue)
        /\ reply'.total = Len(processingQueue)
        /\ \A i \in 1..Len(processingQueue) :
             LET jobId == processingQueue[i][1]
                 job == processingQueue[i][2]
             IN IF Terminal(job) /\ now - job.endTime > oneHour
                THEN jobId \in ReportedIds(reply')
                       /\ ~MapHas(processingQueue', jobId)
                ELSE MapHas(processingQueue', jobId)
    ]_vars

(* C13 witness: a snapshot has just reported a failed job that it evicted, *)
(* next to a job that remains                                              *)
C13_Witness ==
  /\ IsStatusReply
  /\ \E i \in 1..Len(reply.failedJobs) :
       ~MapHas(processingQueue, reply.failedJobs[i].jobId)
  /\ Len(processingQueue) = 1
  /\ reply.total = 2

(* C14: a snapshot of an empty registry returns three empty groups, a text *)
(* with 0 active, 0 completed and 0 failed jobs and the note 'No recent    *)
(* processing jobs found.', and leaves the registry empty.                 *)
C14_EmptyRegistrySnapshot ==
  [][ (reply'.kind = "status" /\ processingQueue = <<>>) =>
        /\ reply'.activeJobs = <<>>
        /\ reply'.completedJobs = <<>>
        /\ reply'.failedJobs = <<>>
        /\ reply'.text = "Processing Status Summary:\n\n"
                           \o "Active jobs: 0\n"
                           \o "Completed jobs: 0\n"
                           \o "Failed jobs: 0\n\n"
                           \o "No recent processing jobs found."
        /\ processingQueue' = <<>>
    ]_vars

(* C14 witness: a snapshot of a registry that eviction has emptied *)
C14_Witness ==
  /\ IsStatusReply
  /\ reply.total = 0
  /\ processingQueue = <<>>
  /\ Len(procs) > 0
  /\ \A p \in 1..Len(procs) : procs[p].state = "exited"

(* C16: for a large file of 11.2 GB (shown as 11.20GB) the response of the *)
(* background submit reports the estimate '~33 minutes'.                   *)
C16_ReadmeExampleEstimate ==
  (reply.kind = "estimate" /\ reply.large /\ reply.fileSize = "11.20GB") =>
    reply.text = "~33 minutes"

(* C17: every background submit uses a job id that is not yet a key of the *)
(* registry, so the registry grows by exactly one entry and no entry is    *)
(* overwritten, also for submits of the same name in the same millisecond. *)
C17_SubmitAddsFreshEntry ==
  [][ IsBackgroundSubmitStep =>
        /\ ~MapHas(processingQueue, reply'.jobId)
        /\ Len(processingQueue') = Len(processingQueue) + 1
        /\ SubSeq(processingQueue', 1, Len(processingQueue)) = processingQueue
    ]_vars

(* C18: the input file, output file, command, size and start time recorded *)
(* under a job id do not change while the id stays in the registry.        *)
C18_SubmitFieldsFrozen ==
  [][ \A i \in 1..Len(processingQueue) :
        \A j \in 1..Len(processingQueue') :
          processingQueue'[j][1] = processingQueue[i][1] =>
            /\ processingQueue'[j][2].inputFile = processingQueue[i][2].inputFile
            /\ processingQueue'[j][2].outputFile = processingQueue[i][2].outputFile
            /\ processingQueue'[j][2].command = processingQueue[i][2].command
            /\ processingQueue'[j][2].fileSize = processingQueue[i][2].fileSize
            /\ processingQueue'[j][2].startTime = processingQueue[i][2].startTime
    ]_vars

(* C19: the exit callback of a process whose job id is no longer a key of  *)
(* the registry leaves the registry as it is, keys and contents, and no    *)
(* error is raised.                                                        *)
C19_CallbackForEvictedIdIsNoOp ==
  [][ \A pid \in 1..Len(procs) :
        (ExitsIn(pid) /\ ~MapHas(processingQueue, procs[pid].jobId)) =>
          /\ processingQueue' = processingQueue
          /\ reply'.kind # "error"
    ]_vars

(* C19 witness: a process has failed and no snapshot was taken since, yet  *)
(* the registry has no entry under its job id: its callback found none     *)
C19_Witness ==
  \E p \in 1..Len(procs) :
    /\ procs[p].state = "exited"
    /\ procs[p].unseenFailure
    /\ ~MapHas(processingQueue, procs[p].jobId)

(* the first process spawned under a job id: the submit that inserted the  *)
(* key                                                                     *)
FirstPid(jobId) ==
  CHOOSE p \in 1..Len(procs) :
    /\ procs[p].jobId = jobId
    /\ \A p2 \in 1..(p - 1) : procs[p2].jobId # jobId

InInsertionOrder(group) ==
  \A i \in 1..Len(group) : \A j \in (i + 1)..Len(group) :
    FirstPid(group[i].jobId) < FirstPid(group[j].jobId)

(* C20: every entry a snapshot reports is in exactly one of the three      *)
(* groups, the one of its status, and each group lists its entries in the  *)
(* order in which their keys were inserted into the registry.              *)
C20_GroupsPartitionInOrder ==
  [][ reply'.kind = "status" =>
        LET r == reply'
        IN /\ ReportedIds(r) = Keys(processingQueue)
           /\ Len(r.activeJobs) + Len(r.completedJobs) + Len(r.failedJobs)
                = Cardinality(ReportedIds(r))
           /\ \A i \in 1..Len(processingQueue) :
                LET jobId == processingQueue[i][1]
                    status == processingQueue[i][2].status
                IN /\ Listed(r.activeJobs, jobId) <=> status = "processing"
                   /\ Listed(r.completedJobs, jobId) <=> status = "completed"
                   /\ Listed(r.failedJobs, jobId) <=> status = "failed"
           /\ \A i \in 1..Len(r.activeJobs) :
                r.activeJobs[i].status = "processing"
           /\ \A i \in 1..Len(r.completedJobs) :
                r.completedJobs[i].status = "completed"
           /\ \A i \in 1..Len(r.failedJobs) :
                r.failedJobs[i].status = "failed"
           /\ InInsertionOrder(r.activeJobs)
           /\ InInsertionOrder(r.completedJobs)
           /\ InInsertionOrder(r.failedJobs)
    ]_vars

(* C20 witness: a snapshot reports two jobs in one group *)
C20_Witness ==
  /\ IsStatusReply
  /\ Len(reply.completedJobs) = 2
  /\ reply.completedJobs[1].jobId # reply.completedJobs[2].jobId
  /\ FirstPid(reply.completedJobs[1].jobId) = 1
  /\ FirstPid(reply.completedJobs[2].jobId) = 2

(* C21: as long as the process of a background submit has not exited, the *)
(* registry holds an entry under the job id of that submit and its status  *)
(* is 'processing': it is neither evicted nor marked completed or failed.  *)
C21_RunningJobStaysProcessing ==
  \A p \in 1..Len(procs) :
    procs[p].state = "running" =>
      /\ MapHas(processingQueue, procs[p].jobId)
      /\ MapGet(processingQueue, procs[p].jobId).status = "processing"

(* C22: a step that is no snapshot removes no job id from the registry; a  *)
(* snapshot adds none and leaves every entry it retains as it was.         *)
C22_OnlySnapshotRemoves ==
  [][ /\ reply'.kind # "status" =>
           Keys(processingQueue) \subseteq Keys(processingQueue')
      /\ reply'.kind = "status" =>
           /\ Keys(processingQueue') \subseteq Keys(processingQueue)
           /\ \A jobId \in Keys(processingQueue') :
                MapGet(processingQueue', jobId)
                  = MapGet(processingQueue, jobId)
    ]_vars

(* C22 witness: a snapshot taken exactly one hour after two jobs ended has *)
(* retained both, one failed and one completed                             *)
C22_Witness ==
  /\ IsStatusReply
  /\ now = oneHour
  /\ Len(processingQueue) = 2
  /\ \E i \in 1..2 : /\ processingQueue[i][2].status = "failed"
                     /\ processingQueue[i][2].endTime = 0
  /\ \E i \in 1..2 : /\ processingQueue[i][2].status = "completed"
                     /\ processingQueue[i][2].endTime = 0

(* C23: a speed_up_video request answered immediately (small file, command *)
(* succeeded), or with an error (command failed, input file not found),    *)
(* leaves the registry and the spawned processes exactly as they were.     *)
C23_ImmediateLeavesRegistryAlone ==
  [][ reply'.kind \in {"immediate", "error"} =>
        /\ processingQueue' = processingQueue
        /\ procs' = procs
    ]_vars

(* C23 witness: a small file's command has failed while one background job *)
(* is in the registry, still processing                                    *)
C23_Witness ==
  /\ reply.kind = "error"
  /\ reply.message # ToolError("Input file not found: "
                                 \o pathJoin(baseFolder, "missing.mp4")).message
  /\ Len(processingQueue) = 1
  /\ processingQueue[1][2].status = "processing"
  /\ Len(procs) = 1

(* ================== properties of concatenate_videos ==================== *)
CallEnded(c) == calls[c].pc \in {"done", "failed"}

(* C15: when a concatenate_videos call ends, by returning or by throwing   *)
(* after a missing input, a rejected write or a failed ffmpeg, the video   *)
(* folder holds no concat_list.txt written by that call.                   *)
C15_ListFileGoneWhenCallEnds ==
  [][ \A c \in 1..MaxConcatCalls :
        (~CallEnded(c) /\ CallEnded(c)') =>
          ~(listFile'.exists /\ listFile'.writer = c)
    ]_vars

(* C15 witness: one call has returned and another, whose ffmpeg read a     *)
(* list file and failed, has thrown; the folder holds no list file         *)
C15_Witness ==
  /\ \E c \in 1..MaxConcatCalls : calls[c].pc = "done"
  /\ \E c \in 1..MaxConcatCalls :
       /\ calls[c].pc = "failed"
       /\ calls[c].read \notin {Null, Undefined}
  /\ ~listFile.exists

(* C24: the ffmpeg process of every concatenate_videos call reads a list   *)
(* file that exists and holds exactly that call's own video_files, in      *)
(* order, whatever other calls do meanwhile.                               *)
C24_FfmpegReadsOwnList ==
  \A c \in 1..MaxConcatCalls :
    calls[c].read # Null =>
      calls[c].read = listContentOf(calls[c].video_files)

(* the well-formed estimates: "~N minutes" with N at most 59 and "~Hh Mm"  *)
(* with M from 0 to 59                                                     *)
WellFormedEstimates ==
  {"~" \o ToString(n) \o " minutes" : n \in 0..59}
    \cup {"~" \o ToString(h) \o "h " \o ToString(m) \o "m" :
            h \in 1..(baseMinutesPerGB * (MaxEstimateGB + 1)), m \in 0..59}

(* C25: for every size, whole or not, the string estimateProcessingTime    *)
(* produces is "~N minutes" with N <= 59 or "~Hh Mm" with 0 <= M <= 59.    *)
C25_EstimateWellFormed ==
  reply.kind = "estimate" => reply.text \in WellFormedEstimates

(* ======================= properties of the dispatcher =================== *)
EndsWith(s, suffix) ==
  /\ Len(s) >= Len(suffix)
  /\ SubSeq(s, Len(s) - Len(suffix) + 1, Len(s)) = suffix

NamesUnknownTool(message) ==
  \E name \in ToolNames \ KnownTools :
    EndsWith(message, "Unknown tool: " \o name)

(* C26: a call of a tool name that is none of the four known ones is       *)
(* answered with an error of code MethodNotFound whose message names the   *)
(* tool; every other error response has code InternalError.                *)
C26_UnknownToolIsMethodNotFound ==
  reply.kind = "error" =>
    IF NamesUnknownTool(reply.message)
    THEN reply.code = "MethodNotFound"
    ELSE reply.code = "InternalError"

(* ============================ liveness ================================== *)
LastReading == CHOOSE t \in ClockReadings : \A u \in ClockReadings : u <= t

AllSpawnedExited ==
  \A p \in 1..Len(procs) : procs[p].state = "exited"

(* every entry has ended, and so late that it is not expired at the last  *)
(* clock reading                                                           *)
OnlyUnexpiredLeft ==
  /\ now = LastReading
  /\ \A i \in 1..Len(processingQueue) :
       /\ Terminal(processingQueue[i][2])
       /\ now - processingQueue[i][2].endTime <= oneHour

(* C27: when every spawned process eventually exits, its exit callback     *)
(* runs once (an exited process never runs again), and every job in the    *)
(* registry eventually has status 'completed' or 'failed'; when moreover   *)
(* time advances and snapshots keep being taken, every job is eventually   *)
(* evicted, unless it ended within one hour of the last clock reading.     *)
C27_JobsFinishAndAreEvicted ==
  /\ [][ \A p \in 1..Len(procs) :
           procs[p].state = "exited" => procs'[p].state = "exited" ]_vars
  /\ (Len(procs) > 0) ~> (AllSpawnedExited /\ OnlyUnexpiredLeft)

(* C27 witness: both processes have exited and the snapshot just taken has *)
(* reported and evicted the last of their jobs                             *)
C27_Witness ==
  /\ Len(procs) = MaxSubmits
  /\ \A p \in 1..Len(procs) : procs[p].state = "exited"
  /\ processingQueue = <<>>
  /\ IsStatusReply
  /\ reply.total > 0
  /\ now = LastReading

====
